---- MODULE Spec2Model ----
(***************************************************************************)
(* A model of tokendito/user.py: the log redaction filter, the             *)
(* configuration sources and their merge, the interactive prompts, the     *)
(* configuration checks, the MFA option display, the SAML response parser, *)
(* the role selection and the ini-file persistence.                        *)
(*                                                                         *)
(* Text that the code inspects character by character (log messages,       *)
(* secrets) is a sequence of one-character strings.  Every component has   *)
(* a specification of its own (SpecMask, ...); the variables of the other  *)
(* components stay at their initial values there.                          *)
(***************************************************************************)
EXTENDS Integers, Sequences, FiniteSets, TLC

VARIABLES
    mask_items,     \* user.py:40, the process-wide redaction registry (a list)
    record,         \* the last log record that went through MaskLoggerSecret.filter
    saml_html,      \* the authentication response handed to validate_saml_response
    saml_out,       \* how validate_saml_response ended
    authenticated_aps,  \* select_role_arn's argument: the apps in dict order
    aws_profile,    \* config.aws["profile"]
    aws_role_arn,   \* config.aws["role_arn"]
    role_out,       \* how select_role_arn ended, and what prompt_role_choices built
    fs,             \* the credentials file and the config file, with their directories
    fs_before,      \* fs as set_local_credentials found it
    persist_out,    \* how set_local_credentials and its two update_ini calls ended
    ini_file,       \* the profile's section of the tokendito ini file: key -> value
    environ,        \* os.environ: name -> value
    cli_args,       \* vars(args): dest -> value, for the options that were given
    config,         \* the process-wide Config object (tokendito.config)
    options_out,    \* how process_options ended, and what it read and merged
    mfa_option,     \* one MFA option of the Okta reply, mfa_option_info's argument
    mfa_out,        \* how mfa_option_info ended
    sanitize_out,   \* whether sanitize_config_values ran, and the config it was given
    validate_out,   \* how validate_configuration ended, and the config it was given
    gic_in,         \* get_interactive_config's arguments and what the user types
    gic_out         \* how get_interactive_config ended, and its details dictionary

maskVars == <<mask_items, record>>
samlVars == <<saml_html, saml_out>>
roleVars == <<authenticated_aps, aws_profile, aws_role_arn, role_out>>
iniVars == <<fs, fs_before, persist_out>>
confVars == <<ini_file, environ, cli_args, config, options_out>>
mfaVars == <<mfa_option, mfa_out>>
checkVars == <<sanitize_out, validate_out>>
gicVars == <<gic_in, gic_out>>

vars == <<mask_items, record, saml_html, saml_out,
          authenticated_aps, aws_profile, aws_role_arn, role_out,
          fs, fs_before, persist_out,
          ini_file, environ, cli_args, config, options_out,
          mfa_option, mfa_out, sanitize_out, validate_out, gic_in, gic_out>>

(***************************************************************************)
(* Bounds.                                                                 *)
(***************************************************************************)
MaxSecretLen == 2
MaxSecrets == 2
MaxMsgLen == 3
MaxInputs == 3
MaxBindings == 3
MaxEntries == 3
MaxLines == 2

(***************************************************************************)
(* Text helpers.                                                           *)
(***************************************************************************)
Chars == {"a", "*"}

StrUpTo(n) == UNION {[1..k -> Chars] : k \in 0..n}

\* s[i..] starts with t
MatchAt(s, t, i) ==
    /\ i + Len(t) - 1 <= Len(s)
    /\ \A k \in 1..Len(t) : s[i + k - 1] = t[k]

\* Python's `t in s` for strings
Contains(s, t) == \E i \in 1..(Len(s) + 1) : MatchAt(s, t, i)

\* str.replace(old, new) for a non-empty old: leftmost occurrences, not overlapping
RECURSIVE ReplaceFrom(_, _, _, _)
ReplaceFrom(s, old, new, i) ==
    IF i > Len(s) THEN <<>>
    ELSE IF MatchAt(s, old, i) THEN new \o ReplaceFrom(s, old, new, i + Len(old))
    ELSE <<s[i]>> \o ReplaceFrom(s, old, new, i + 1)

\* str.replace("", new): new before every character and at the end
RECURSIVE Interleave(_, _, _)
Interleave(s, new, i) ==
    IF i > Len(s) THEN new
    ELSE new \o <<s[i]>> \o Interleave(s, new, i + 1)

\* a plausible slip: only the first occurrence is replaced (replace(old, new, 1))
RECURSIVE ReplaceFirstFrom(_, _, _, _)
ReplaceFirstFrom(s, old, new, i) ==
    IF i > Len(s) THEN <<>>
    ELSE IF MatchAt(s, old, i) THEN new \o SubSeq(s, i + Len(old), Len(s))
    ELSE <<s[i]>> \o ReplaceFirstFrom(s, old, new, i + 1)

str_replace_first(s, old, new) ==
    IF old = <<>> THEN new \o s ELSE ReplaceFirstFrom(s, old, new, 1)

str_replace(s, old, new) ==
    IF old = <<>> THEN Interleave(s, new, 1) ELSE ReplaceFrom(s, old, new, 1)

(***************************************************************************)
(* MaskLoggerSecret (user.py:40-56).                                       *)
(***************************************************************************)
MASK == <<"*", "*", "*", "*", "*">>

NoRecord == [orig |-> <<>>, msg |-> <<>>, n |-> -1]

\* the loop of filter(): every registered secret, in registration order
RECURSIVE FilterFrom(_, _, _)
FilterFrom(items, msg, i) ==
    IF i > Len(items) THEN msg
    ELSE FilterFrom(items, str_replace(msg, items[i], MASK), i + 1)

MaskLoggerSecret_filter(items, msg) == FilterFrom(items, msg, 1)

Secrets == StrUpTo(MaxSecretLen)
Messages == StrUpTo(MaxMsgLen)

\* add_sensitive_value_to_be_masked(value) with key=None (user.py:642-647).
\* A behaviour of SpecMask is the registry as built up to one logging call: the
\* filter reads the registry and the message, nothing of earlier records.
RegisterSecret(v) ==
    /\ record = NoRecord
    /\ Len(mask_items) < MaxSecrets
    /\ mask_items' = Append(mask_items, v)
    /\ UNCHANGED record

\* a logging call: the record's msg is rewritten by the filter before it is emitted;
\* orig and n (how many values were registered then) are kept for the properties
LogMessage(m) ==
    /\ record = NoRecord
    /\ record' = [orig |-> m,
                  msg |-> MaskLoggerSecret_filter(mask_items, m),
                  n |-> Len(mask_items)]
    /\ UNCHANGED mask_items

MaskNext ==
    \/ \E v \in Secrets : RegisterSecret(v)
    \/ \E m \in Messages : LogMessage(m)

(***************************************************************************)
(* validate_saml_response (user.py:530-546).                               *)
(*                                                                         *)
(* The markup is the sequence of its <input> elements in document order,   *)
(* each with its name attribute and its value attribute (NoValue: the      *)
(* element has no value attribute, elem.get("value") is None).             *)
(***************************************************************************)
NoValue == "<no value attribute>"

\* codecs.decode(v.encode("ascii"), "base64").decode("utf-8") on the values the
\* model uses: the decoded text, or the exception the call raises
B64Utf8 ==
    [v \in {"PGE+", "PGI+", "", "PGE", "/w==", NoValue} |->
        CASE v = "PGE+" -> [ok |-> TRUE, text |-> "<a>"]
          [] v = "PGI+" -> [ok |-> TRUE, text |-> "<b>"]
          [] v = "" -> [ok |-> TRUE, text |-> ""]
          [] v = "PGE" -> [ok |-> FALSE, text |-> "binascii.Error"]
          [] v = "/w==" -> [ok |-> FALSE, text |-> "UnicodeDecodeError"]
          [] v = NoValue -> [ok |-> FALSE, text |-> "AttributeError"]]

InputNames == {"SAMLResponse", "RelayState"}
InputValues == DOMAIN B64Utf8
InputElems == [name : InputNames, value : InputValues]
Documents == UNION {[1..k -> InputElems] : k \in 0..MaxInputs}

NotRun == [status |-> "none", value |-> "", code |-> 0]
Returned(x) == [status |-> "returned", value |-> x, code |-> 0]
SysExit(c) == [status |-> "exit", value |-> "", code |-> c]
\* an exception nothing catches: the interpreter prints the traceback and ends
\* the process with status 1
Raised(e) == [status |-> "raised", value |-> e, code |-> 1]

\* soup.find_all("input", attrs={"name": "SAMLResponse"})
find_all_SAMLResponse(html) == SelectSeq(html, LAMBDA e : e.name = "SAMLResponse")

\* a plausible slip: the loop stops at the first field
saml_loop_first(elems, i, xml) ==
    IF elems = <<>> THEN SysExit(1)
    ELSE IF ~B64Utf8[elems[1].value].ok THEN Raised(B64Utf8[elems[1].value].text)
    ELSE Returned(B64Utf8[elems[1].value].text)

\* the for loop (535-537) from element i on, xml being the value decoded last
\* (NoValue for None), then the check of 539-546
RECURSIVE saml_loop(_, _, _)
saml_loop(elems, i, xml) ==
    IF i > Len(elems)
    THEN IF xml = NoValue THEN SysExit(1) ELSE Returned(xml)
    ELSE IF ~B64Utf8[elems[i].value].ok
         THEN Raised(B64Utf8[elems[i].value].text)
         ELSE saml_loop(elems, i + 1, B64Utf8[elems[i].value].text)

validate_saml_response ==
    /\ saml_out = NotRun
    /\ saml_out' = saml_loop(find_all_SAMLResponse(saml_html), 1, NoValue)
    /\ UNCHANGED saml_html

(***************************************************************************)
(* Role ARNs, account aliases and the role selection (user.py:310-347,     *)
(* 429-472, 594-624).                                                      *)
(*                                                                         *)
(* A role ARN "arn:aws:iam::<account>:role/<name>" is the tuple of its     *)
(* colon-separated fields, the last field being the tuple of its           *)
(* slash-separated segments.                                               *)
(***************************************************************************)
\* Python's None, where a string is expected and where a tuple or dict is
None == "<None>"
NoneObj == <<>>

Arn(account, name) == <<"arn", "aws", "iam", "", account, <<"role", name>>>>

RoleArns == {Arn("111", "Admin"), Arn("222", "Admin"), Arn("111", "Dev")}

\* role.split("/")[-1]
split_slash_last(role) == role[6][Len(role[6])]

\* role.split(":")[4]
split_colon_4(role) == role[5]

AppUrls == {"https://u1", "https://u2"}
AppLabels == {"AWS A", "AWS B"}

SeqsNoDup(S, n) ==
    {q \in UNION {[1..k -> S] : k \in 1..n} :
        \A i, j \in 1..Len(q) : i # j => q[i] # q[j]}

RECURSIVE SumLen(_, _)
SumLen(apps, i) ==
    IF i > Len(apps) THEN 0 ELSE Len(apps[i].roles) + SumLen(apps, i + 1)

\* the apps: distinct urls (dict keys), each with the roles extract_arns found
\* (at least one, dict keys again) and its label
AppRecords ==
    [url : AppUrls, label : AppLabels, roles : SeqsNoDup(RoleArns, MaxBindings)]

AuthenticatedAps ==
    {q \in UNION {[1..k -> AppRecords] : k \in 1..Cardinality(AppUrls)} :
        /\ \A i, j \in 1..Len(q) : i # j => q[i].url # q[j].url
        /\ SumLen(q, 1) <= MaxBindings}

\* Python's order of the strings the rows are made of (code points: digits,
\* then upper case, then lower case)
StrRank(x) ==
    CASE x = "111" -> 1 [] x = "222" -> 2
      [] x = "AWS A" -> 3 [] x = "AWS B" -> 4
      [] x = "Admin" -> 5 [] x = "Dev" -> 6
      [] x = "alpha" -> 7
      [] x = "https://u1" -> 8 [] x = "https://u2" -> 9
      [] x = "prod" -> 10 [] x = "zeta" -> 11

\* role ARNs of the model differ in account or name only
RoleLess(r1, r2) ==
    \/ StrRank(r1[5]) < StrRank(r2[5])
    \/ r1[5] = r2[5] /\ StrRank(split_slash_last(r1)) < StrRank(split_slash_last(r2))

\* tuple comparison of two rows (label, alias, role, url)
RowLess(a, b) ==
    \/ StrRank(a[1]) < StrRank(b[1])
    \/ a[1] = b[1] /\ StrRank(a[2]) < StrRank(b[2])
    \/ a[1] = b[1] /\ a[2] = b[2] /\ RoleLess(a[3], b[3])
    \/ a[1] = b[1] /\ a[2] = b[2] /\ a[3] = b[3] /\ StrRank(a[4]) < StrRank(b[4])

RECURSIVE InsertRow(_, _)
InsertRow(row, sortedRows) ==
    IF sortedRows = <<>> THEN <<row>>
    ELSE IF RowLess(row, Head(sortedRows)) THEN <<row>> \o sortedRows
    ELSE <<Head(sortedRows)>> \o InsertRow(row, Tail(sortedRows))

\* a plausible slip: the rows are listed in the order they were built
sorted_as_built(rows) == rows

\* sorted(aliases_mapping), the rows being distinct
RECURSIVE sorted(_)
sorted(rows) ==
    IF rows = <<>> THEN <<>> ELSE InsertRow(Head(rows), sorted(Tail(rows)))

(***************************************************************************)
(* get_account_aliases (user.py:594-624).  The account-listing response is *)
(* the sequence of its text nodes, a text node the sequence of the words   *)
(* that split(" ") gives; RequestError stands for requests raising.        *)
(***************************************************************************)
RequestError == <<<<"<request error>">>>>

AwsResponses ==
    { <<<<"Sign", "in">>>>,
      <<<<"Account:", "prod", "(111)">>>>,
      <<<<"Account:", "zeta", "(111)">>, <<"Account:", "alpha", "(222)">>>>,
      RequestError }

\* "Account: " in text: the marker followed by a space, hence by another word
HasAccountMarker(text) ==
    \E i \in 1..Len(text) : \E j \in 1..(Len(text[i]) - 1) : text[i][j] = "Account:"

\* str.strip("()") on the words of the model
strip_parens(w) ==
    CASE w = "(111)" -> "111" [] w = "(222)" -> "222" [] OTHER -> w

\* soup.find_all(text=re.compile("Account:"))
account_names(text) ==
    SelectSeq(text, LAMBDA node : \E j \in 1..Len(node) : node[j] = "Account:")

\* the dict comprehension of line 622: a later node overwrites an earlier one
\* with the same account id
alias_table_of(nodes) ==
    LET ids == {strip_parens(nodes[i][Len(nodes[i])]) : i \in 1..Len(nodes)}
        last(a) == CHOOSE i \in 1..Len(nodes) :
                      /\ strip_parens(nodes[i][Len(nodes[i])]) = a
                      /\ \A j \in 1..Len(nodes) :
                            strip_parens(nodes[j][Len(nodes[j])]) = a => j <= i
    IN  [a \in ids |-> nodes[last(a)][2]]

\* a plausible slip: the marker test is dropped and a table is always built
get_account_aliases_always(response) ==
    IF response = RequestError THEN SysExit(1)
    ELSE Returned(alias_table_of(response))

\* the result: Returned(None), Returned(table) or SysExit(1)
get_account_aliases(response) ==
    IF response = RequestError THEN SysExit(1)
    ELSE IF ~HasAccountMarker(response) THEN Returned(NoneObj)
    ELSE Returned(alias_table_of(account_names(response)))

(***************************************************************************)
(* prompt_role_choices (user.py:429-472).                                  *)
(***************************************************************************)
\* how select_role_arn ended: status/value/code as for the other calls, whether
\* prompt_role_choices was entered, the sorted rows it listed, the results of
\* get_account_aliases per app, and the inputs of the call that the
\* properties need (the responses of the account-listing endpoint, the
\* number the user entered)
RoleOut(ended, prompted, rows, tables, responses, input) ==
    [status |-> ended.status, value |-> ended.value, code |-> ended.code,
     prompted |-> prompted, rows |-> rows, tables |-> tables,
     responses |-> responses, input |-> input]

RoleNotRun == RoleOut(NotRun, FALSE, <<>>, <<>>, <<>>, -1)

\* the inner loop (441-446) over the roles of one app from role i on: the rows,
\* or KeyError when the alias table has no entry for a role's account
RECURSIVE rows_of_app(_, _, _)
rows_of_app(app, alias_table, i) ==
    IF i > Len(app.roles) THEN Returned(<<>>)
    ELSE LET role == app.roles[i]
             rest == rows_of_app(app, alias_table, i + 1)
         IN  IF alias_table # NoneObj /\ split_colon_4(role) \notin DOMAIN alias_table
             THEN Raised("KeyError")
             ELSE IF rest.status # "returned" THEN rest
             ELSE Returned(
                    <<<<app.label,
                        IF alias_table # NoneObj THEN alias_table[split_colon_4(role)]
                        ELSE split_colon_4(role),
                        role, app.url>>>> \o rest.value)

\* the outer loop (437-446) from app i on: aliases_mapping and the alias tables,
\* or the way the loop ended the invocation
RECURSIVE aliases_mapping_from(_, _, _)
aliases_mapping_from(apps, responses, i) ==
    IF i > Len(apps) THEN [ended |-> Returned(<<>>), tables |-> <<>>]
    ELSE LET got == get_account_aliases(responses[i])
         IN  IF got.status # "returned" THEN [ended |-> got, tables |-> <<got>>]
             ELSE LET mine == rows_of_app(apps[i], got.value, 1)
                  IN  IF mine.status # "returned"
                      THEN [ended |-> mine, tables |-> <<got>>]
                      ELSE LET rest == aliases_mapping_from(apps, responses, i + 1)
                           IN  [ended |-> IF rest.ended.status # "returned"
                                          THEN rest.ended
                                          ELSE Returned(mine.value \o rest.ended.value),
                                tables |-> <<got>> \o rest.tables]

\* collect_integer(n) hands back a number the prompt has validated: 0..n-1
prompt_role_choices(apps, responses, user_input) ==
    LET built == aliases_mapping_from(apps, responses, 1)
        rows == sorted(built.ended.value)
    IN  IF built.ended.status # "returned"
        THEN RoleOut(built.ended, TRUE, <<>>, built.tables, responses, -1)
        ELSE RoleOut(Returned(<<rows[user_input + 1][3], rows[user_input + 1][4]>>),
                     TRUE, rows, built.tables, responses, user_input)

(***************************************************************************)
(* select_role_arn (user.py:310-347).                                      *)
(***************************************************************************)
\* [role.split("/")[-1] for role in app["roles"]]
role_names_of(app) == [i \in 1..Len(app.roles) |-> split_slash_last(app.roles[i])]

\* list.count
count(list, x) == Cardinality({i \in 1..Len(list) : list[i] = x})

\* role_names[profile]: the dict keeps the last role with that name
role_named(app, name) ==
    app.roles[CHOOSE i \in 1..Len(app.roles) :
                 /\ split_slash_last(app.roles[i]) = name
                 /\ \A j \in 1..Len(app.roles) :
                       split_slash_last(app.roles[j]) = name => j <= i]

\* a plausible slip: the url of the first app is paired with the role ARN
RECURSIVE select_loop_first_url(_, _, _, _)
select_loop_first_url(apps, profile, role_arn, i) ==
    IF i > Len(apps) THEN Returned(NoneObj)
    ELSE IF count(role_names_of(apps[i]), profile) > 1 THEN SysExit(2)
    ELSE IF \E j \in 1..Len(apps[i].roles) : role_names_of(apps[i])[j] = profile
         THEN Returned(<<role_named(apps[i], profile), apps[i].url>>)
    ELSE IF \E j \in 1..Len(apps[i].roles) : apps[i].roles[j] = role_arn
         THEN Returned(<<role_arn, apps[1].url>>)
    ELSE select_loop_first_url(apps, profile, role_arn, i + 1)

\* the for loop (318-336) from app i on: sys.exit(2), the selected pair, or None
RECURSIVE select_loop(_, _, _, _)
select_loop(apps, profile, role_arn, i) ==
    IF i > Len(apps) THEN Returned(NoneObj)
    ELSE IF count(role_names_of(apps[i]), profile) > 1 THEN SysExit(2)
    ELSE IF \E j \in 1..Len(apps[i].roles) : role_names_of(apps[i])[j] = profile
         THEN Returned(<<role_named(apps[i], profile), apps[i].url>>)
    ELSE IF \E j \in 1..Len(apps[i].roles) : apps[i].roles[j] = role_arn
         THEN Returned(<<role_arn, apps[i].url>>)
    ELSE select_loop(apps, profile, role_arn, i + 1)

\* a plausible slip: the prompt is entered whenever the loop selected nothing
select_role_arn_always_prompts(apps, profile, role_arn, responses, user_input) ==
    LET looped == select_loop(apps, profile, role_arn, 1)
    IN  IF looped.status = "returned" /\ looped.value = NoneObj
        THEN prompt_role_choices(apps, responses, user_input)
        ELSE RoleOut(looped, FALSE, <<>>, <<>>, <<>>, -1)

\* what follows the loop (338-347)
select_role_arn_result(apps, profile, role_arn, responses, user_input) ==
    LET looped == select_loop(apps, profile, role_arn, 1)
    IN  IF looped.status = "returned" /\ looped.value = NoneObj
        THEN IF role_arn = NoneObj
             THEN prompt_role_choices(apps, responses, user_input)
             ELSE RoleOut(SysExit(2), FALSE, <<>>, <<>>, <<>>, -1)
        ELSE RoleOut(looped, FALSE, <<>>, <<>>, <<>>, -1)

\* one call of select_role_arn: what the account-listing endpoint answers for
\* each app and the number the user enters are inputs of the call
select_role_arn ==
    /\ role_out.status = "none"
    /\ \E responses \in [1..Len(authenticated_aps) -> AwsResponses],
          user_input \in 0..(SumLen(authenticated_aps, 1) - 1) :
          role_out' = select_role_arn_result(authenticated_aps, aws_profile,
                                             aws_role_arn, responses, user_input)
    /\ UNCHANGED <<authenticated_aps, aws_profile, aws_role_arn>>

(***************************************************************************)
(* create_directory, update_ini and set_local_credentials (user.py:176-185,*)
(* 942-1011).                                                              *)
(*                                                                         *)
(* A target file is a record:                                              *)
(*   dir      what os.path.dirname(ini_file) is: "present", "absent" (its  *)
(*            parent exists, os.mkdir can create it), "deep_absent" (its   *)
(*            parent is missing too) or "empty" (the path has no directory *)
(*            component, dirname is "")                                    *)
(*   dir_writable  whether a new file can be created in the directory      *)
(*   exists, readable, writable   the file and its permissions            *)
(*   parses   whether configparser can parse what the file holds           *)
(*   content  what the file holds: section -> (key as written -> value)    *)
(***************************************************************************)
Files == {"shared_credentials_file", "config_file"}

EmptyIni == <<>>

\* what a file may hold before the call; section is the section the call
\* addresses ("work" in the credentials file, "profile work" in the config file)
IniContents(section) ==
    { EmptyIni,
      [s \in {"other"} |-> [k \in {"Foo"} |-> "bar"]],
      [s \in {"other", section} |->
          IF s = "other" THEN [k \in {"foo"} |-> "bar"]
          ELSE [k \in {"aws_access_key_id", "region", "extra"} |-> "old"]] }

FileStates(section) ==
    {f \in [dir : {"present", "absent", "deep_absent", "empty"},
            dir_writable : BOOLEAN, exists : BOOLEAN, readable : BOOLEAN,
            writable : BOOLEAN, parses : BOOLEAN, content : IniContents(section)] :
        /\ f.dir \in {"absent", "deep_absent"} => ~f.exists /\ f.dir_writable
        /\ f.dir = "empty" => f.dir_writable
        /\ ~f.exists => f.content = EmptyIni /\ f.readable /\ f.writable /\ f.parses
        /\ ~f.parses => f.content = EmptyIni}

\* a writable directory without the file
NoFileYet ==
    [dir |-> "present", dir_writable |-> TRUE, exists |-> FALSE, readable |-> TRUE,
     writable |-> TRUE, parses |-> TRUE, content |-> EmptyIni]

\* RawConfigParser.optionxform: str.lower, on the keys of the model
optionxform(k) == IF k = "Foo" THEN "foo" ELSE k

\* RawConfigParser.read on a file that opens and parses: the sections with
\* their keys lower-cased
parsed(content) ==
    [s \in DOMAIN content |->
        [k \in {optionxform(r) : r \in DOMAIN content[s]} |->
            content[s][CHOOSE r \in DOMAIN content[s] : optionxform(r) = k]]]

\* has_section / add_section / set (998-1002)
ini_set(ini, profile, kwargs) ==
    [s \in DOMAIN ini \cup {profile} |->
        IF s # profile THEN ini[s]
        ELSE [k \in (IF s \in DOMAIN ini THEN DOMAIN ini[s] ELSE {})
                    \cup {optionxform(a) : a \in DOMAIN kwargs} |->
                IF \E a \in DOMAIN kwargs : optionxform(a) = k
                THEN kwargs[CHOOSE a \in DOMAIN kwargs : optionxform(a) = k]
                ELSE ini[s][k]]]

\* create_directory(ini_dir) (176-185): os.mkdir creates one level; an empty
\* name is no directory and os.mkdir("") raises FileNotFoundError
create_directory(f) ==
    IF f.dir = "present" THEN [file |-> f, ended |-> Returned("")]
    ELSE IF f.dir = "absent"
         THEN [file |-> [f EXCEPT !.dir = "present"], ended |-> Returned("")]
         ELSE [file |-> f, ended |-> SysExit(1)]

\* a plausible slip: the parsed file is dropped and only the addressed section
\* is written
ini_after_read_fresh(f) == EmptyIni

\* ini.read (990-992): configparser skips a file it cannot open (a missing one,
\* an unreadable one) without raising, and the parser stays empty
ini_after_read(f) ==
    IF f.exists /\ f.readable THEN parsed(f.content) ELSE EmptyIni

\* update_ini(profile, ini_file, **kwargs) (977-1011) on file f; write_fails:
\* the write raises OSError after open(ini_file, "w+") has truncated the file
update_ini(f, profile, kwargs, write_fails) ==
    LET made == create_directory(f)
        d == made.file
        ini == ini_set(ini_after_read(d), profile, kwargs)
    IN  IF made.ended.status # "returned" THEN made
        ELSE IF d.exists /\ d.readable /\ ~d.parses
             THEN [file |-> d, ended |-> SysExit(1)]
        ELSE IF (d.exists /\ ~d.writable) \/ (~d.exists /\ ~d.dir_writable)
             THEN [file |-> d, ended |-> SysExit(1)]
        ELSE IF write_fails
             THEN [file |-> [d EXCEPT !.exists = TRUE, !.content = EmptyIni,
                                      !.parses = TRUE],
                   ended |-> SysExit(1)]
        ELSE [file |-> [d EXCEPT !.exists = TRUE, !.content = ini, !.parses = TRUE],
              ended |-> Returned("")]

\* the AssumeRoleWithSAML responses: with its Credentials, or without
Responses ==
    { [AccessKeyId |-> "AKIA", SecretAccessKey |-> "s3cr3t", SessionToken |-> "tok"],
      [AccessKeyId |-> "AKIA"] }

PersistNotRun == [status |-> "none", code |-> 0, role |-> "",
                  cred |-> NotRun, conf |-> NotRun]

\* set_local_credentials(response, role, region, output) (942-974)
set_local_credentials ==
    /\ persist_out.status = "none"
    /\ \E response \in Responses, role \in {"work"}, region \in {"us-east-1"},
          output \in {"json"}, write_fails \in [Files -> BOOLEAN] :
          IF DOMAIN response # {"AccessKeyId", "SecretAccessKey", "SessionToken"}
          THEN /\ persist_out' = [PersistNotRun EXCEPT !.status = "exit", !.code = 1,
                                                       !.role = role]
               /\ fs' = fs
          ELSE LET first == update_ini(fs["shared_credentials_file"], role,
                                [aws_access_key_id |-> response.AccessKeyId,
                                 aws_secret_access_key |-> response.SecretAccessKey,
                                 aws_session_token |-> response.SessionToken],
                                write_fails["shared_credentials_file"])
                   second == update_ini(fs["config_file"], "profile " \o role,
                                [output |-> output, region |-> region],
                                write_fails["config_file"])
               IN  IF first.ended.status # "returned"
                   THEN /\ fs' = [fs EXCEPT !["shared_credentials_file"] = first.file]
                        /\ persist_out' = [status |-> "exit", code |-> 1, role |-> role,
                                           cred |-> first.ended, conf |-> NotRun]
                   ELSE /\ fs' = [fs EXCEPT !["shared_credentials_file"] = first.file,
                                            !["config_file"] = second.file]
                        /\ persist_out' =
                              [status |-> second.ended.status,
                               code |-> second.ended.code, role |-> role,
                               cred |-> first.ended, conf |-> second.ended]
    /\ UNCHANGED fs_before

(***************************************************************************)
(* The configuration sources (user.py:642-787, 1039-1118).                 *)
(*                                                                         *)
(* A key, an environment variable name and a configuration value are       *)
(* sequences of tokens: a key is its words with "_" between them, each     *)
(* word in the letter case it is written in; a URL is its scheme, its host *)
(* and its path; any other value is one token, "" the empty sequence.      *)
(***************************************************************************)
\* None as a configuration value
NoneVal == <<"<None>">>

\* bool(value)
truthy(v) == v # NoneVal /\ v # <<>>

\* str.lower on the words of the model
lower_word(w) ==
    CASE w = "TOKENDITO" -> "tokendito" [] w = "OKTA" -> "okta" [] w = "AWS" -> "aws"
      [] w = "ORG" -> "org" [] w = "APP" -> "app" [] w = "URL" -> "url"
      [] w = "USERNAME" -> "username" [] w = "PASSWORD" -> "password"
      [] w = "OUTPUT" -> "output" [] w = "MFA" -> "mfa" [] w = "RESPONSE" -> "response"
      [] w = "SESSIONTOKEN" -> "sessiontoken" [] w = "sessionToken" -> "sessiontoken"
      [] OTHER -> w

\* key.lower()
lower(key) == [i \in 1..Len(key) |-> lower_word(key[i])]

\* the position of the first "_" at or after i, 0 when there is none
RECURSIVE find_underscore(_, _)
find_underscore(key, i) ==
    IF i > Len(key) THEN 0
    ELSE IF key[i] = "_" THEN i ELSE find_underscore(key, i + 1)

NoMatch == [matched |-> FALSE, group1 |-> <<>>, group2 |-> <<>>]

\* re.search(r"^(.*?)_(.*)", key): split at the first "_"
match_ns_key(key) ==
    LET u == find_underscore(key, 1)
    IN  IF u = 0 THEN NoMatch
        ELSE [matched |-> TRUE, group1 |-> SubSeq(key, 1, u - 1),
              group2 |-> SubSeq(key, u + 1, Len(key))]

\* re.search(rf"^({prefix})_(.*?)_(.*)", name) with prefix "tokendito": what
\* follows the prefix and its "_" is split at the next "_"; group1 and group2
\* here are the pattern's group(2) and group(3)
match_env(name) ==
    IF Len(name) >= 2 /\ name[1] = "tokendito" /\ name[2] = "_"
    THEN match_ns_key(SubSeq(name, 3, Len(name)))
    ELSE NoMatch

\* sensitive_keys (645)
sensitive_keys == {<<"password">>, <<"mfa", "_", "response">>, <<"sessionToken">>}

\* a plausible slip: the key filter is inverted
add_sensitive_value_inverted(items, value, key) ==
    IF key \notin sensitive_keys THEN Append(items, value) ELSE items

\* add_sensitive_value_to_be_masked(value, key) with a key (642-647): the
\* registry after the call
add_sensitive_value_to_be_masked(items, value, key) ==
    IF key \in sensitive_keys THEN Append(items, value) ELSE items

\* get_submodule_names(): the modules of the tokendito package
submodule_names == {<<"aws">>, <<"okta">>, <<"user">>}

(***************************************************************************)
(* tokendito.Config is not part of user.py; it is modelled from the        *)
(* specification (sections 3 and 4.1): a two-level mapping namespace ->    *)
(* key -> value with a default for every known key, whose update is a deep *)
(* union in which a present key always overwrites and an absent key never  *)
(* erases.  A Config is the function from the <<namespace, key>> pairs it  *)
(* was given to their values; a lookup falls back to the default.          *)
(***************************************************************************)
K_org == <<<<"okta">>, <<"org">>>>
K_app_url == <<<<"okta">>, <<"app", "_", "url">>>>
K_username == <<<<"okta">>, <<"username">>>>
K_password == <<<<"okta">>, <<"password">>>>
K_mfa_response == <<<<"okta">>, <<"mfa", "_", "response">>>>
K_output == <<<<"aws">>, <<"output">>>>
K_region == <<<<"aws">>, <<"region">>>>

EmptyConfig == <<>>

config_defaults(k) ==
    CASE k = K_username -> <<>>
      [] k = K_password -> <<>>
      [] k = K_output -> <<"json">>
      [] k = K_region -> <<"us-east-1">>
      [] OTHER -> NoneVal

\* config.<namespace>[<key>]
config_get(c, k) == IF k \in DOMAIN c THEN c[k] ELSE config_defaults(k)

\* Config.update(other)
config_update(c, other) ==
    [k \in DOMAIN c \cup DOMAIN other |-> IF k \in DOMAIN other THEN other[k] ELSE c[k]]

\* Config(**res) raises for a namespace that is no module of the package
config_accepts(res) == \A k \in DOMAIN res : k[1] \in submodule_names

\* aws.get_output_types() and aws.get_regions()
output_types == {<<"json">>, <<"text">>, <<"csv">>, <<"yaml">>}
regions == {<<"us-east-1">>, <<"us-west-2">>}

(***************************************************************************)
(* URLs: urlparse, get_base_url and the two validators (549-591, 819-828). *)
(***************************************************************************)
Schemes == {"https://", "http://", "HTTPS://"}
\* a path begins at the first "/" after the host
IsPathToken(t) == t = "/"

\* the index of the first path token at or after i, Len(url) + 1 when none
RECURSIVE path_start(_, _)
path_start(url, i) ==
    IF i > Len(url) THEN i
    ELSE IF IsPathToken(url[i]) THEN i ELSE path_start(url, i + 1)

\* urlparse(url): a text without "scheme://" in front has no scheme and no
\* netloc, all of it is path; the scheme is given in lower case
urlparse(url) ==
    IF url # <<>> /\ url[1] \in Schemes
    THEN [scheme |-> IF url[1] = "HTTPS://" THEN "https://" ELSE url[1],
          netloc |-> SubSeq(url, 2, path_start(url, 2) - 1),
          path |-> SubSeq(url, path_start(url, 2), Len(url))]
    ELSE [scheme |-> "", netloc |-> <<>>, path |-> url]

\* f"{url.scheme}://{url.netloc}"
get_base_url(urlstring) ==
    LET url == urlparse(urlstring)
    IN  IF url.scheme = "" THEN <<"://">> ELSE <<url.scheme>> \o url.netloc

validate_okta_org_url(input_url) ==
    LET url == urlparse(input_url)
    IN  url.scheme = "https://" /\ url.path \in {<<>>, <<"/">>}

\* ^/home/amazon_aws/\w{20}/\d{3}$ on the paths of the model
validate_okta_app_url(input_url) ==
    LET url == urlparse(input_url)
    IN  /\ url.scheme = "https://"
        /\ url.path = <<"/", "home/amazon_aws/0oa1234567890abcdefg/123">>

(***************************************************************************)
(* The three stored sources and their readers (650-749).  A source is the  *)
(* sequence of its <<key, value>> items in the order the reader iterates   *)
(* over them; a reader ends with the mapping it found and the registry.    *)
(***************************************************************************)
\* res[namespace][key] = val
dict_set(res, k, val) ==
    [x \in DOMAIN res \cup {k} |-> IF x = k THEN val ELSE res[x]]

ReadOk(res, items) == [status |-> "returned", code |-> 0, res |-> res, items |-> items]
ReadExit(c, items) == [status |-> "exit", code |-> c, res |-> <<>>, items |-> items]

\* the loop of process_ini_file (663-669); ini.items() yields every key in
\* lower case (ConfigParser.optionxform), the loop lowers it again
RECURSIVE ini_loop(_, _, _, _)
ini_loop(its, i, res, items) ==
    IF i > Len(its) THEN ReadOk(res, items)
    ELSE LET m == match_ns_key(lower(lower(its[i].key)))
         IN  IF m.matched
             THEN ini_loop(its, i + 1,
                           dict_set(res, <<m.group1, m.group2>>, its[i].val),
                           add_sensitive_value_to_be_masked(items, its[i].val, m.group2))
             ELSE ini_loop(its, i + 1, res, items)

process_ini_file(its, items) ==
    LET r == ini_loop(its, 1, <<>>, items)
    IN  IF config_accepts(r.res) THEN r ELSE ReadExit(1, r.items)

\* the loop of process_environment (731-738)
RECURSIVE env_loop(_, _, _, _)
env_loop(its, i, res, items) ==
    IF i > Len(its) THEN ReadOk(res, items)
    ELSE LET m == match_env(lower(its[i].key))
         IN  IF m.matched /\ truthy(its[i].val)
             THEN env_loop(its, i + 1,
                           dict_set(res, <<m.group1, m.group2>>, its[i].val),
                           add_sensitive_value_to_be_masked(items, its[i].val, m.group2))
             ELSE env_loop(its, i + 1, res, items)

process_environment(its, items) ==
    LET r == env_loop(its, 1, <<>>, items)
    IN  IF config_accepts(r.res) THEN r ELSE ReadExit(1, r.items)

\* the loop of process_arguments (697-706)
RECURSIVE args_loop(_, _, _, _)
args_loop(its, i, res, items) ==
    IF i > Len(its) THEN ReadOk(res, items)
    ELSE LET m == match_ns_key(lower(its[i].key))
         IN  IF m.matched /\ m.group1 \in submodule_names /\ truthy(its[i].val)
             THEN args_loop(its, i + 1,
                            dict_set(res, <<m.group1, m.group2>>, its[i].val),
                            add_sensitive_value_to_be_masked(items, its[i].val, m.group2))
             ELSE args_loop(its, i + 1, res, items)

process_arguments(its, items) ==
    LET r == args_loop(its, 1, <<>>, items)
    IN  IF config_accepts(r.res) THEN r ELSE ReadExit(1, r.items)

(***************************************************************************)
(* The interactive source (752-874).  What the user types at a prompt is a *)
(* sequence of lines; a prompt that rejects a line asks again.             *)
(***************************************************************************)
\* the loop of get_org_url (839-848)
RECURSIVE get_org_url_loop(_, _)
get_org_url_loop(lines, i) ==
    IF i > Len(lines) THEN <<>>
    ELSE IF lines[i] = <<>> THEN <<>>
    ELSE LET user_data == IF lines[i][1] = "https://" THEN lines[i]
                          ELSE <<"https://">> \o lines[i]
         IN  IF validate_okta_org_url(user_data) THEN user_data
             ELSE get_org_url_loop(lines, i + 1)

get_org_url(lines) == get_org_url_loop(lines, 1)

\* the loop of get_app_url (861-870)
RECURSIVE get_app_url_loop(_, _)
get_app_url_loop(lines, i) ==
    IF i > Len(lines) THEN <<>>
    ELSE IF lines[i] = <<>> THEN <<>>
    ELSE LET user_data == IF lines[i][1] = "https://" THEN lines[i]
                          ELSE <<"https://">> \o lines[i]
         IN  IF validate_okta_app_url(user_data) THEN user_data
             ELSE get_app_url_loop(lines, i + 1)

get_app_url(lines) == get_app_url_loop(lines, 1)

\* get_interactive_config(app_url, org_url, username) (790-816): the details
\* dictionary.  The first loop asks once: what the two prompts return is a
\* string, never None.
get_interactive_config(app_url, org_url, username, typed) ==
    LET ask == org_url = NoneVal /\ app_url = NoneVal
        org_url1 == IF ask THEN get_org_url(typed.org) ELSE org_url
        app_url1 == IF ask THEN get_app_url(typed.app) ELSE app_url
        username1 == IF username = <<>> THEN typed.username ELSE username
        keys == (IF org_url1 # NoneVal THEN {"okta_org"} ELSE {})
                \cup (IF app_url1 # NoneVal THEN {"okta_app_url"} ELSE {})
                \cup {"okta_username"}
    IN  [k \in keys |-> CASE k = "okta_org" -> org_url1
                          [] k = "okta_app_url" -> app_url1
                          [] OTHER -> username1]

\* process_interactive_input(config) (752-787): the mapping handed to Config
\* and the registry
process_interactive_input(c, typed, items) ==
    LET details == get_interactive_config(config_get(c, K_app_url), config_get(c, K_org),
                                          config_get(c, K_username), typed)
        ask_password == config_get(c, K_password) = <<>>
        keys == (IF "okta_app_url" \in DOMAIN details THEN {K_app_url} ELSE {})
                \cup (IF "okta_org_url" \in DOMAIN details THEN {K_org} ELSE {})
                \cup (IF "okta_username" \in DOMAIN details THEN {K_username} ELSE {})
                \cup (IF ask_password THEN {K_password} ELSE {})
        res == [k \in keys |-> CASE k = K_app_url -> details["okta_app_url"]
                                 [] k = K_org -> details["okta_org_url"]
                                 [] k = K_username -> details["okta_username"]
                                 [] OTHER -> typed.password]
    IN  [status |-> "returned", code |-> 0, res |-> res, details |-> details,
         items |-> IF ask_password THEN Append(items, typed.password) ELSE items]

\* a plausible slip: the region is left as it was given
sanitize_keeps_region(c) ==
    LET c1 == IF truthy(config_get(c, K_app_url))
              THEN dict_set(c, K_org, get_base_url(config_get(c, K_app_url)))
              ELSE c
    IN  IF config_get(c1, K_output) \notin output_types
        THEN dict_set(c1, K_output, config_defaults(K_output))
        ELSE c1

\* sanitize_config_values(config) (1100-1118)
sanitize_config_values(c) ==
    LET c1 == IF truthy(config_get(c, K_app_url))
              THEN dict_set(c, K_org, get_base_url(config_get(c, K_app_url)))
              ELSE c
        c2 == IF config_get(c1, K_output) \notin output_types
              THEN dict_set(c1, K_output, config_defaults(K_output))
              ELSE c1
    IN  IF config_get(c2, K_region) \notin regions
        THEN dict_set(c2, K_region, config_defaults(K_region))
        ELSE c2

\* a plausible slip: the arguments are merged before the environment
merge_args_before_env(c, config_ini, config_env, config_args) ==
    config_update(config_update(config_update(c, config_ini), config_args), config_env)

\* config.update(config_ini); config.update(config_env);
\* config.update(config_args) (1058-1060)
merge_stored(c, config_ini, config_env, config_args) ==
    config_update(config_update(config_update(c, config_ini), config_env), config_args)

(***************************************************************************)
(* process_options (1039-1067), for a run with neither --version nor       *)
(* --configure: read the three stored sources, merge them into the         *)
(* process-wide configuration, ask the user, merge, sanitize.              *)
(***************************************************************************)
OptionsNotRun ==
    [status |-> "none", code |-> 0, config_ini |-> <<>>, config_env |-> <<>>,
     config_args |-> <<>>, config_int |-> <<>>, details |-> <<>>, merged |-> <<>>]

OptionsExit(c) == [OptionsNotRun EXCEPT !.status = "exit", !.code = c]

\* the configuration values of the model
OrgA == <<"https://", "acme.okta.com">>
OrgB == <<"https://", "other.okta.com">>
AppA == <<"https://", "acme.okta.com", "/", "home/amazon_aws/0oa1234567890abcdefg/123">>
AppC == <<"https://", "corp.okta.com", "/", "home/amazon_aws/0oa1234567890abcdefg/123">>

\* what the user may type at the prompts
Typed ==
    [org : {<<<<>>>>, <<<<"acme.okta.com", "/", "foo">>, <<"other.okta.com">>>>},
     app : {<<<<>>>>, <<<<"corp.okta.com", "/", "foo">>, AppC>>},
     username : {<<"typed-user">>},
     password : {<<"typed-password">>}]

Items(source, key, vals) ==
    [i \in 1..Len(vals) |-> [source |-> source, key |-> key, val |-> vals[i]]]

\* the items a source may hold
ItemList ==
       Items("ini", <<"okta", "_", "org">>, <<OrgA, OrgB>>)
    \o Items("ini", <<"okta", "_", "app", "_", "url">>, <<AppA, <<"HTTPS://">> \o Tail(AppA)>>)
    \o Items("ini", <<"okta", "_", "username">>, <<<<"jane">>>>)
    \o Items("ini", <<"okta", "_", "password">>, <<<<"hunter2">>, <<>>>>)
    \o Items("ini", <<"okta", "_", "sessionToken">>, <<<<"tok-ini">>>>)
    \o Items("ini", <<"aws", "_", "output">>, <<<<"text">>, <<"bogus">>>>)
    \o Items("ini", <<"foo", "_", "bar">>, <<<<"baz">>>>)
    \o Items("env", <<"TOKENDITO", "_", "OKTA", "_", "ORG">>, <<OrgB>>)
    \o Items("env", <<"TOKENDITO", "_", "OKTA", "_", "APP", "_", "URL">>, <<AppA, AppC>>)
    \o Items("env", <<"TOKENDITO", "_", "OKTA", "_", "USERNAME">>, <<<<"joe">>, <<>>>>)
    \o Items("env", <<"TOKENDITO", "_", "OKTA", "_", "PASSWORD">>, <<<<"pass">>>>)
    \o Items("env", <<"tokendito", "_", "okta", "_", "password">>, <<<<"pass-lc">>>>)
    \o Items("env", <<"TOKENDITO", "_", "OKTA", "_", "SESSIONTOKEN">>, <<<<"tok-env">>>>)
    \o Items("env", <<"TOKENDITO", "_", "AWS", "_", "OUTPUT">>, <<<<"csv">>>>)
    \o Items("env", <<"OKTA", "_", "PASSWORD">>, <<<<"stray">>>>)
    \o Items("args", <<"okta", "_", "org">>, <<OrgA>>)
    \o Items("args", <<"okta", "_", "app", "_", "url">>, <<AppC>>)
    \o Items("args", <<"okta", "_", "username">>, <<<<"sam">>>>)
    \o Items("args", <<"okta", "_", "password">>, <<<<"arg-pass">>>>)
    \o Items("args", <<"okta", "_", "mfa", "_", "response">>, <<<<"123456">>>>)
    \o Items("args", <<"aws", "_", "output">>, <<<<"yaml">>>>)

\* the increasing sequences of at most k indices of ItemList, from lo on
RECURSIVE Picks(_, _)
Picks(k, lo) ==
    IF k = 0 THEN {<<>>}
    ELSE {<<>>} \cup UNION {{<<i>> \o r : r \in Picks(k - 1, i + 1)} : i \in lo..Len(ItemList)}

\* the items of one source among the picked ones
SourceItems(pick, source) ==
    LET chosen == [i \in 1..Len(pick) |-> ItemList[pick[i]]]
        IsOf(e) == e.source = source
        mine == SelectSeq(chosen, IsOf)
    IN  [i \in 1..Len(mine) |-> [key |-> mine[i].key, val |-> mine[i].val]]

\* no source holds two items whose keys differ in letter case only
DistinctKeys(its) ==
    \A i, j \in 1..Len(its) : lower(its[i].key) = lower(its[j].key) => i = j

Environments(n) ==
    {pick \in Picks(n, 1) :
        \A source \in {"ini", "env", "args"} : DistinctKeys(SourceItems(pick, source))}

process_options(typed) ==
    LET r_ini == process_ini_file(ini_file, mask_items)
        r_env == process_environment(environ, r_ini.items)
        r_args == process_arguments(cli_args, r_env.items)
        merged3 == merge_stored(config, r_ini.res, r_env.res, r_args.res)
        r_int == process_interactive_input(merged3, typed, r_args.items)
        merged == config_update(merged3, r_int.res)
    IN  /\ options_out.status = "none"
        /\ IF r_ini.status = "exit"
           THEN /\ options_out' = OptionsExit(r_ini.code)
                /\ mask_items' = r_ini.items
                /\ UNCHANGED config
           ELSE IF r_env.status = "exit"
           THEN /\ options_out' = OptionsExit(r_env.code)
                /\ mask_items' = r_env.items
                /\ UNCHANGED config
           ELSE IF r_args.status = "exit"
           THEN /\ options_out' = OptionsExit(r_args.code)
                /\ mask_items' = r_args.items
                /\ UNCHANGED config
           ELSE /\ options_out' = [status |-> "returned", code |-> 0,
                                   config_ini |-> r_ini.res, config_env |-> r_env.res,
                                   config_args |-> r_args.res, config_int |-> r_int.res,
                                   details |-> r_int.details, merged |-> merged]
                /\ mask_items' = r_int.items
                /\ config' = sanitize_config_values(merged)
        /\ UNCHANGED <<ini_file, environ, cli_args>>

ProcessOptions == \E typed \in Typed : process_options(typed)

(***************************************************************************)
(* factor_type_info and mfa_option_info (user.py:350-393).  An MFA option  *)
(* is a dictionary of the Okta reply: factorType and vendorName are None   *)
(* when the key is missing, profile says whether the key is there and      *)
(* which fields the profile dictionary has.                                *)
(***************************************************************************)
FactorTypes ==
    {"token", "token:software:totp", "token:hardware", "push", "sms", "call",
     "webauthn", "web", "u2f", "token:hotp", "question", "email", "signed_nonce"}

ProfileFields ==
    {"credentialId", "name", "phoneNumber", "authenticatorName", "question", "email"}

\* the profile dictionaries of the model: no field or one field, its value
\* empty or not
Profiles ==
    {[present |-> FALSE, fields |-> <<>>], [present |-> TRUE, fields |-> <<>>]}
    \cup {[present |-> TRUE, fields |-> [f \in {field} |-> v]] :
             field \in ProfileFields, v \in {"", "info"}}

MfaOptions ==
    [factorType : {None} \cup FactorTypes, profile : Profiles,
     vendorName : {None, "", "OKTA"}]

NoOption == [factorType |-> None, profile |-> [present |-> FALSE, fields |-> <<>>],
             vendorName |-> None]

\* mfa_option.get("profile").get(field): None has no get
profile_get(option, field) ==
    IF ~option.profile.present THEN Raised("AttributeError")
    ELSE IF field \in DOMAIN option.profile.fields
         THEN Returned(option.profile.fields[field])
         ELSE Returned(None)

\* factor_type_info(factor_type, mfa_option) (350-375)
factor_type_info(factor_type, option) ==
    IF factor_type \in {"token", "token:software:totp", "token:hardware"}
    THEN profile_get(option, "credentialId")
    ELSE IF factor_type = "push" THEN profile_get(option, "name")
    ELSE IF factor_type = "sms" \/ factor_type = "call"
    THEN profile_get(option, "phoneNumber")
    ELSE IF factor_type = "webauthn" THEN profile_get(option, "authenticatorName")
    ELSE IF factor_type \in {"web", "u2f", "token:hotp"}
    THEN Returned(option.vendorName)
    ELSE IF factor_type = "question" THEN profile_get(option, "question")
    ELSE IF factor_type = "email" THEN profile_get(option, "email")
    ELSE Returned("Not Presented")

\* mfa_option_info(mfa_option) (378-393)
mfa_option_info(option) ==
    LET factor_info == IF option.factorType # None
                       THEN factor_type_info(option.factorType, option)
                       ELSE Returned(None)
    IN  IF factor_info.status # "returned" THEN factor_info
        ELSE IF factor_info.value \in {None, ""} THEN Returned("Not Presented")
        ELSE factor_info

MfaOptionInfo ==
    /\ mfa_out.status = "none"
    /\ mfa_out' = mfa_option_info(mfa_option)
    /\ UNCHANGED mfa_option

(***************************************************************************)
(* sanitize_config_values and validate_configuration called on a           *)
(* configuration (user.py:1070-1118).                                      *)
(***************************************************************************)
\* str.startswith
startswith(text, prefix) ==
    Len(prefix) <= Len(text) /\ SubSeq(text, 1, Len(prefix)) = prefix

\* the messages of validate_configuration
MsgUsername == "Username not set."
MsgPassword == "Password not set."
MsgNoUrl == "Either Okta Org or App URL must be defined."
MsgTileUrl == "Tile URL is not valid."
MsgOrgUrl == "Org URL is not valid"
MsgSameDomain == "Org URL and Tile URL must be in the same domain."

\* message.append(text) when the condition holds
append_if(message, cond, text) == IF cond THEN Append(message, text) ELSE message

\* validate_configuration(config) (1070-1097): the list of messages
validate_configuration(c) ==
    LET org == config_get(c, K_org)
        app_url == config_get(c, K_app_url)
        m1 == append_if(<<>>, ~truthy(config_get(c, K_username)), MsgUsername)
        m2 == append_if(m1, ~truthy(config_get(c, K_password)), MsgPassword)
        m3 == append_if(m2, ~truthy(org) /\ ~truthy(app_url), MsgNoUrl)
        m4 == append_if(m3, truthy(app_url) /\ ~validate_okta_app_url(app_url), MsgTileUrl)
        m5 == append_if(m4, truthy(org) /\ ~validate_okta_org_url(org), MsgOrgUrl)
    IN  append_if(m5, truthy(org) /\ truthy(app_url) /\ ~startswith(app_url, org),
                  MsgSameDomain)

NotSanitized == [done |-> FALSE, given |-> <<>>]
NotValidated == [status |-> "none", message |-> <<>>, given |-> <<>>]

\* a key that the configuration was not given
Unset == <<"<unset>">>

AppPath == <<"/", "home/amazon_aws/0oa1234567890abcdefg/123">>

\* the configurations the two functions are called on
GivenOrgs ==
    {Unset, OrgA, OrgA \o <<"/">>, OrgB, <<"http://", "acme.okta.com">>,
     OrgA \o <<"/", "foo">>}
GivenApps ==
    {Unset, AppA, AppC, <<"https://", "acme.okta.com", ".example.org">> \o AppPath,
     <<"http://", "acme.okta.com">> \o AppPath, <<"HTTPS://">> \o Tail(AppA),
     <<"acme.okta.com">> \o AppPath}
GivenOutputs == {Unset, <<"text">>, <<"bogus">>}
GivenRegions == {Unset, <<"us-west-2">>, <<"mars-1">>}

config_of(org, app_url, output, region, username, password) ==
    LET given == [k \in {K_org, K_app_url, K_output, K_region, K_username, K_password} |->
                    CASE k = K_org -> org [] k = K_app_url -> app_url
                      [] k = K_output -> output [] k = K_region -> region
                      [] k = K_username -> username [] OTHER -> password]
    IN  [k \in {x \in DOMAIN given : given[x] # Unset} |-> given[k]]

GivenConfigs ==
    {config_of(org, app_url, output, region, username, password) :
        org \in GivenOrgs, app_url \in GivenApps, output \in GivenOutputs,
        region \in GivenRegions, username \in {Unset, <<"jane">>},
        password \in {Unset, <<"hunter2">>}}

SanitizeConfigValues ==
    /\ ~sanitize_out.done
    /\ config' = sanitize_config_values(config)
    /\ sanitize_out' = [done |-> TRUE, given |-> config]
    /\ UNCHANGED validate_out

ValidateConfiguration ==
    /\ validate_out.status = "none"
    /\ validate_out' = [status |-> "returned", message |-> validate_configuration(config),
                        given |-> config]
    /\ UNCHANGED <<config, sanitize_out>>

CheckNext == SanitizeConfigValues \/ ValidateConfiguration

(***************************************************************************)
(* get_interactive_config called on its own (user.py:790-816).  The lines  *)
(* typed at a URL prompt are rejected ones followed by the line that ends  *)
(* the prompt: an empty line or a URL the validator accepts.               *)
(***************************************************************************)
HostLine == <<"acme.okta.com">>
AppLine == <<"acme.okta.com">> \o AppPath
BadLine == <<"acme.okta.com", "/", "foo">>

\* k lines that the prompt rejects, then one of the lines that end it
TypedLines(rejected, ending) ==
    UNION {{r \o <<e>> : r \in [1..k -> rejected], e \in ending} : k \in 0..(MaxLines - 1)}

OrgLines == TypedLines({BadLine, AppLine}, {<<>>, HostLine})
AppLines == TypedLines({BadLine, HostLine}, {<<>>, AppLine})

GicCalls ==
    [app_url : {NoneVal, <<>>, AppA}, org_url : {NoneVal, <<>>, OrgA},
     username : {<<>>, <<"jane">>},
     typed : [org : OrgLines, app : AppLines, username : {<<"typed-user">>}]]

NoCall == [app_url |-> NoneVal, org_url |-> NoneVal, username |-> <<>>,
           typed |-> [org |-> <<>>, app |-> <<>>, username |-> <<>>]]

NotAsked == [status |-> "none", details |-> <<>>]

GetInteractiveConfig ==
    /\ gic_out.status = "none"
    /\ gic_out' = [status |-> "returned",
                   details |-> get_interactive_config(gic_in.app_url, gic_in.org_url,
                                                      gic_in.username, gic_in.typed)]
    /\ UNCHANGED gic_in

(***************************************************************************)
(* The specifications.                                                     *)
(***************************************************************************)
InitMask ==
    /\ mask_items = <<>>
    /\ record = NoRecord
    /\ saml_html = <<>>
    /\ saml_out = NotRun
    /\ authenticated_aps = <<>>
    /\ aws_profile = None
    /\ aws_role_arn = NoneObj
    /\ role_out = RoleNotRun
    /\ fs = [f \in Files |-> NoFileYet]
    /\ fs_before = fs
    /\ persist_out = PersistNotRun
    /\ ini_file = <<>>
    /\ environ = <<>>
    /\ cli_args = <<>>
    /\ config = EmptyConfig
    /\ options_out = OptionsNotRun
    /\ mfa_option = NoOption
    /\ mfa_out = NotRun
    /\ sanitize_out = NotSanitized
    /\ validate_out = NotValidated
    /\ gic_in = NoCall
    /\ gic_out = NotAsked

NextMask == MaskNext /\ UNCHANGED <<samlVars, roleVars, iniVars, confVars, mfaVars, checkVars, gicVars>>

SpecMask == InitMask /\ [][NextMask]_vars

InitSaml ==
    /\ mask_items = <<>>
    /\ record = NoRecord
    /\ saml_html \in Documents
    /\ saml_out = NotRun
    /\ authenticated_aps = <<>>
    /\ aws_profile = None
    /\ aws_role_arn = NoneObj
    /\ role_out = RoleNotRun
    /\ fs = [f \in Files |-> NoFileYet]
    /\ fs_before = fs
    /\ persist_out = PersistNotRun
    /\ ini_file = <<>>
    /\ environ = <<>>
    /\ cli_args = <<>>
    /\ config = EmptyConfig
    /\ options_out = OptionsNotRun
    /\ mfa_option = NoOption
    /\ mfa_out = NotRun
    /\ sanitize_out = NotSanitized
    /\ validate_out = NotValidated
    /\ gic_in = NoCall
    /\ gic_out = NotAsked

NextSaml == validate_saml_response /\ UNCHANGED <<maskVars, roleVars, iniVars, confVars, mfaVars, checkVars, gicVars>>

SpecSaml == InitSaml /\ [][NextSaml]_vars

InitRole ==
    /\ mask_items = <<>>
    /\ record = NoRecord
    /\ saml_html = <<>>
    /\ saml_out = NotRun
    /\ authenticated_aps \in AuthenticatedAps
    /\ aws_profile \in {None, "Admin", "Dev"}
    /\ aws_role_arn \in {NoneObj} \cup RoleArns
    /\ role_out = RoleNotRun
    /\ fs = [f \in Files |-> NoFileYet]
    /\ fs_before = fs
    /\ persist_out = PersistNotRun
    /\ ini_file = <<>>
    /\ environ = <<>>
    /\ cli_args = <<>>
    /\ config = EmptyConfig
    /\ options_out = OptionsNotRun
    /\ mfa_option = NoOption
    /\ mfa_out = NotRun
    /\ sanitize_out = NotSanitized
    /\ validate_out = NotValidated
    /\ gic_in = NoCall
    /\ gic_out = NotAsked

NextRole == select_role_arn /\ UNCHANGED <<maskVars, samlVars, iniVars, confVars, mfaVars, checkVars, gicVars>>

SpecRole == InitRole /\ [][NextRole]_vars

InitIni ==
    /\ mask_items = <<>>
    /\ record = NoRecord
    /\ saml_html = <<>>
    /\ saml_out = NotRun
    /\ authenticated_aps = <<>>
    /\ aws_profile = None
    /\ aws_role_arn = NoneObj
    /\ role_out = RoleNotRun
    /\ fs \in {f \in [Files -> FileStates("work") \cup FileStates("profile work")] :
                  /\ f["shared_credentials_file"] \in FileStates("work")
                  /\ f["config_file"] \in FileStates("profile work")}
    /\ fs_before = fs
    /\ persist_out = PersistNotRun
    /\ ini_file = <<>>
    /\ environ = <<>>
    /\ cli_args = <<>>
    /\ config = EmptyConfig
    /\ options_out = OptionsNotRun
    /\ mfa_option = NoOption
    /\ mfa_out = NotRun
    /\ sanitize_out = NotSanitized
    /\ validate_out = NotValidated
    /\ gic_in = NoCall
    /\ gic_out = NotAsked

NextIni == set_local_credentials /\ UNCHANGED <<maskVars, samlVars, roleVars, confVars, mfaVars, checkVars, gicVars>>

SpecIni == InitIni /\ [][NextIni]_vars

InitConfig ==
    /\ mask_items = <<>>
    /\ record = NoRecord
    /\ saml_html = <<>>
    /\ saml_out = NotRun
    /\ authenticated_aps = <<>>
    /\ aws_profile = None
    /\ aws_role_arn = NoneObj
    /\ role_out = RoleNotRun
    /\ fs = [f \in Files |-> NoFileYet]
    /\ fs_before = fs
    /\ persist_out = PersistNotRun
    /\ \E pick \in Environments(MaxEntries) :
          /\ ini_file = SourceItems(pick, "ini")
          /\ environ = SourceItems(pick, "env")
          /\ cli_args = SourceItems(pick, "args")
    /\ config = EmptyConfig
    /\ options_out = OptionsNotRun
    /\ mfa_option = NoOption
    /\ mfa_out = NotRun
    /\ sanitize_out = NotSanitized
    /\ validate_out = NotValidated
    /\ gic_in = NoCall
    /\ gic_out = NotAsked

NextConfig == ProcessOptions /\ UNCHANGED <<record, samlVars, roleVars, iniVars, mfaVars, checkVars, gicVars>>

SpecConfig == InitConfig /\ [][NextConfig]_vars

InitMfa ==
    /\ mask_items = <<>>
    /\ record = NoRecord
    /\ saml_html = <<>>
    /\ saml_out = NotRun
    /\ authenticated_aps = <<>>
    /\ aws_profile = None
    /\ aws_role_arn = NoneObj
    /\ role_out = RoleNotRun
    /\ fs = [f \in Files |-> NoFileYet]
    /\ fs_before = fs
    /\ persist_out = PersistNotRun
    /\ ini_file = <<>>
    /\ environ = <<>>
    /\ cli_args = <<>>
    /\ config = EmptyConfig
    /\ options_out = OptionsNotRun
    /\ mfa_option \in MfaOptions
    /\ mfa_out = NotRun
    /\ sanitize_out = NotSanitized
    /\ validate_out = NotValidated
    /\ gic_in = NoCall
    /\ gic_out = NotAsked

NextMfa == MfaOptionInfo /\ UNCHANGED <<maskVars, samlVars, roleVars, iniVars, confVars, checkVars, gicVars>>

SpecMfa == InitMfa /\ [][NextMfa]_vars

InitCheck ==
    /\ mask_items = <<>>
    /\ record = NoRecord
    /\ saml_html = <<>>
    /\ saml_out = NotRun
    /\ authenticated_aps = <<>>
    /\ aws_profile = None
    /\ aws_role_arn = NoneObj
    /\ role_out = RoleNotRun
    /\ fs = [f \in Files |-> NoFileYet]
    /\ fs_before = fs
    /\ persist_out = PersistNotRun
    /\ ini_file = <<>>
    /\ environ = <<>>
    /\ cli_args = <<>>
    /\ config \in GivenConfigs
    /\ options_out = OptionsNotRun
    /\ mfa_option = NoOption
    /\ mfa_out = NotRun
    /\ sanitize_out = NotSanitized
    /\ validate_out = NotValidated
    /\ gic_in = NoCall
    /\ gic_out = NotAsked

NextCheck ==
    CheckNext /\ UNCHANGED <<maskVars, samlVars, roleVars, iniVars, mfaVars, gicVars,
                             ini_file, environ, cli_args, options_out>>

SpecCheck == InitCheck /\ [][NextCheck]_vars

InitInteractive ==
    /\ mask_items = <<>>
    /\ record = NoRecord
    /\ saml_html = <<>>
    /\ saml_out = NotRun
    /\ authenticated_aps = <<>>
    /\ aws_profile = None
    /\ aws_role_arn = NoneObj
    /\ role_out = RoleNotRun
    /\ fs = [f \in Files |-> NoFileYet]
    /\ fs_before = fs
    /\ persist_out = PersistNotRun
    /\ ini_file = <<>>
    /\ environ = <<>>
    /\ cli_args = <<>>
    /\ config = EmptyConfig
    /\ options_out = OptionsNotRun
    /\ mfa_option = NoOption
    /\ mfa_out = NotRun
    /\ sanitize_out = NotSanitized
    /\ validate_out = NotValidated
    /\ gic_in \in GicCalls
    /\ gic_out = NotAsked

NextInteractive ==
    GetInteractiveConfig /\ UNCHANGED <<maskVars, samlVars, roleVars, iniVars, confVars,
                                        mfaVars, checkVars>>

SpecInteractive == InitInteractive /\ [][NextInteractive]_vars

(***************************************************************************)
(* The claims.                                                             *)
(***************************************************************************)
\* the values that were registered when the record was filtered
RegisteredThen == {mask_items[i] : i \in 1..record.n}

MaskSafe(s) == s # <<>> /\ \A k \in 1..Len(s) : s[k] # "*"

SamlFields == SelectSeq(saml_html, LAMBDA e : e.name = "SAMLResponse")
SamlDecodable(e) == e.value \in {"PGE+", "PGI+", ""}
SamlTerminated == saml_out.status \in {"exit", "raised"}

C9_MissingAssertionExit2 ==
    (saml_out.status = "exit" /\ SamlFields = <<>>) => saml_out.code = 2

\* the (app, role) pairs whose role name is the configured profile alias
AliasMatches ==
    {<<i, j>> \in (1..Len(authenticated_aps)) \X (1..MaxBindings + 1) :
        /\ j <= Len(authenticated_aps[i].roles)
        /\ split_slash_last(authenticated_aps[i].roles[j]) = aws_profile}

\* the apps that list the configured role ARN
ArnSources ==
    {i \in 1..Len(authenticated_aps) :
        \E j \in 1..Len(authenticated_aps[i].roles) :
            authenticated_aps[i].roles[j] = aws_role_arn}

\* the role ARNs, across the sources, whose name is the profile alias
AliasMatchedRoles == {authenticated_aps[m[1]].roles[m[2]] : m \in AliasMatches}

\* C2: when the profile alias is the name of more than one role across the
\* sources, select_role_arn ends with exit status 2 and returns no role.
C2_AmbiguousAliasExits2 ==
    (role_out.status # "none" /\ Cardinality(AliasMatchedRoles) > 1)
        => role_out.status = "exit" /\ role_out.code = 2

\* C3: when the configured role ARN is a role of some source and the alias
\* names no role, select_role_arn returns the role ARN with the url of a source
\* that lists it, and does not prompt.
C3_RoleArnSelected ==
    (role_out.status # "none" /\ ArnSources # {} /\ AliasMatches = {})
        => /\ role_out.status = "returned"
           /\ role_out.value[1] = aws_role_arn
           /\ \E i \in ArnSources : authenticated_aps[i].url = role_out.value[2]
           /\ ~role_out.prompted

\* the role ARN is listed by the second source only; an alias is configured and
\* names no role
C3_Witness ==
    /\ role_out.status = "returned"
    /\ ArnSources = {2}
    /\ aws_profile # None
    /\ AliasMatches = {}
    /\ role_out.value = <<aws_role_arn, authenticated_aps[2].url>>

\* the apps whose account-listing response has no "Account:" marker
Unmarked ==
    {i \in 1..Len(authenticated_aps) :
        /\ i <= Len(role_out.responses)
        /\ role_out.responses[i] # RequestError
        /\ \A n \in 1..Len(role_out.responses[i]) :
              \A w \in 1..Len(role_out.responses[i][n]) :
                  role_out.responses[i][n][w] # "Account:"}

RowsOfApp(i) ==
    {r \in 1..Len(role_out.rows) : role_out.rows[r][4] = authenticated_aps[i].url}

\* C10: without the marker get_account_aliases returns none and the rows of
\* that source carry the raw account id; and the alias step does not make the
\* invocation fail when a returned table lacks the account of a role.
C10_AliasStepNeverFatal ==
    role_out.prompted =>
        /\ \A i \in Unmarked :
              i <= Len(role_out.tables) =>
                  /\ role_out.tables[i].status = "returned"
                  /\ role_out.tables[i].value = NoneObj
        /\ (role_out.status = "returned") =>
              \A i \in Unmarked : \A r \in RowsOfApp(i) :
                  role_out.rows[r][2] = split_colon_4(role_out.rows[r][3])
        /\ (\A i \in 1..Len(role_out.responses) : role_out.responses[i] # RequestError)
              => role_out.status = "returned"

\* the alias column of the row of role j of source i
AliasColumn(i, j) ==
    LET account == split_colon_4(authenticated_aps[i].roles[j])
    IN  IF role_out.tables[i].value = NoneObj THEN account
        ELSE role_out.tables[i].value[account]

\* the rows listed for role j of source i
RowsOfBinding(i, j) ==
    {r \in 1..Len(role_out.rows) :
        /\ role_out.rows[r][3] = authenticated_aps[i].roles[j]
        /\ role_out.rows[r][4] = authenticated_aps[i].url}

\* C11: when prompt_role_choices returns, it has listed exactly one row per
\* (source, role) pair, made of the source's label, the alias or account id,
\* the role and the source url; the rows are in ascending lexicographic
\* order; and for the entered number k, one of 0..n-1 over the whole list,
\* the result is the role and url of the k-th row.
C11_SortedRowsGlobalIndex ==
    (role_out.prompted /\ role_out.status = "returned") =>
        /\ Len(role_out.rows) = SumLen(authenticated_aps, 1)
        /\ \A i \in 1..Len(authenticated_aps) :
              \A j \in 1..Len(authenticated_aps[i].roles) :
                  /\ Cardinality(RowsOfBinding(i, j)) = 1
                  /\ \A r \in RowsOfBinding(i, j) :
                        /\ role_out.rows[r][1] = authenticated_aps[i].label
                        /\ role_out.rows[r][2] = AliasColumn(i, j)
        /\ \A r \in 1..(Len(role_out.rows) - 1) :
              RowLess(role_out.rows[r], role_out.rows[r + 1])
        /\ role_out.input \in 0..(Len(role_out.rows) - 1)
        /\ role_out.value = <<role_out.rows[role_out.input + 1][3],
                              role_out.rows[role_out.input + 1][4]>>

\* two sources with different labels, listed in the opposite order of their
\* labels: the user enters 0 and gets the role of the second source
C11_Witness ==
    /\ role_out.prompted
    /\ role_out.status = "returned"
    /\ Len(authenticated_aps) = 2
    /\ StrRank(authenticated_aps[2].label) < StrRank(authenticated_aps[1].label)
    /\ role_out.input = 0
    /\ role_out.value[2] = authenticated_aps[2].url

\* the section a call of update_ini addresses in file f
AddressedSection(f) ==
    IF f = "shared_credentials_file" THEN persist_out.role
    ELSE "profile " \o persist_out.role

\* the keys a call of update_ini is given for file f
AddressedKeys(f) ==
    IF f = "shared_credentials_file"
    THEN {"aws_access_key_id", "aws_secret_access_key", "aws_session_token"}
    ELSE {"output", "region"}

UpdateIniOut(f) ==
    IF f = "shared_credentials_file" THEN persist_out.cred ELSE persist_out.conf

\* section s, key k (as written before the call) of file f has its old value
KeyKept(f, s, k) ==
    /\ s \in DOMAIN fs[f].content
    /\ optionxform(k) \in DOMAIN fs[f].content[s]
    /\ fs[f].content[s][optionxform(k)] = fs_before[f].content[s][k]

FileUnmodified(f) ==
    /\ fs[f].exists = fs_before[f].exists
    /\ fs[f].content = fs_before[f].content
    /\ fs[f].parses = fs_before[f].parses

\* C7: after set_local_credentials either both files have been written or
\* neither file has been modified.
C7_AllOrNothing ==
    persist_out.status # "none" =>
        \/ \A f \in Files : UpdateIniOut(f).status = "returned"
        \/ \A f \in Files : FileUnmodified(f)

\* the value a source supplies for key k, by precedence: interactive input,
\* arguments, environment, file, default
Resolved(k) ==
    IF k \in DOMAIN options_out.config_int THEN options_out.config_int[k]
    ELSE IF k \in DOMAIN options_out.config_args THEN options_out.config_args[k]
    ELSE IF k \in DOMAIN options_out.config_env THEN options_out.config_env[k]
    ELSE IF k \in DOMAIN options_out.config_ini THEN options_out.config_ini[k]
    ELSE config_defaults(k)

ConfigKeys ==
    {K_org, K_app_url, K_username, K_password, K_mfa_response, K_output, K_region}
    \cup DOMAIN options_out.config_ini \cup DOMAIN options_out.config_env
    \cup DOMAIN options_out.config_args \cup DOMAIN options_out.config_int

SecretNames == {<<"password">>, <<"mfa", "_", "response">>, <<"sessiontoken">>}

\* the non-empty values the three readers read under a key whose part after
\* the namespace names a secret, in any letter case
SecretsRead ==
    {ini_file[i].val : i \in {j \in 1..Len(ini_file) :
        LET m == match_ns_key(lower(ini_file[j].key))
        IN  m.matched /\ m.group2 \in SecretNames /\ truthy(ini_file[j].val)}}
    \cup {environ[i].val : i \in {j \in 1..Len(environ) :
        LET m == match_env(lower(environ[j].key))
        IN  m.matched /\ m.group2 \in SecretNames /\ truthy(environ[j].val)}}
    \cup {cli_args[i].val : i \in {j \in 1..Len(cli_args) :
        LET m == match_ns_key(lower(cli_args[j].key))
        IN  m.matched /\ m.group2 \in SecretNames /\ truthy(cli_args[j].val)}}

\* C5: when the readers have returned, every value read under a key that
\* names a secret (password, MFA response, session token), in whatever
\* letter case and from whichever source, is in the redaction registry.
C5_SecretsRegistered ==
    options_out.status = "returned" =>
        \A v \in SecretsRead : \E i \in 1..Len(mask_items) : mask_items[i] = v


\* the field mfa_option_info shows for the option's factorType is missing or
\* empty: no factorType, an unrecognized one, no profile, or no such field
NothingToPresent ==
    LET t == mfa_option.factorType
        field == CASE t \in {"token", "token:software:totp", "token:hardware"} -> "credentialId"
                   [] t = "push" -> "name"
                   [] t \in {"sms", "call"} -> "phoneNumber"
                   [] t = "webauthn" -> "authenticatorName"
                   [] t = "question" -> "question"
                   [] t = "email" -> "email"
                   [] OTHER -> "<none>"
    IN  \/ t \in {None, "signed_nonce"}
        \/ t \in {"web", "u2f", "token:hotp"} /\ mfa_option.vendorName \in {None, ""}
        \/ /\ field # "<none>"
           /\ \/ ~mfa_option.profile.present
              \/ field \notin DOMAIN mfa_option.profile.fields
              \/ mfa_option.profile.fields[field] = ""

\* C12: for every MFA option mfa_option_info returns a display string, and
\* the string is "Not Presented" when the option has no factorType, an
\* unrecognized factorType, no profile or lacks the field of its factorType.
C12_AlwaysADisplayString ==
    mfa_out.status # "none" =>
        /\ mfa_out.status = "returned"
        /\ mfa_out.value \notin {None, ""}
        /\ NothingToPresent => mfa_out.value = "Not Presented"


\* C13: after sanitize_config_values the output type is an allowed output
\* type and the region an allowed region; a value outside its allow-list
\* has become the default, a value inside it is the value given.
C13_OutputAndRegionAllowed ==
    sanitize_out.done =>
        \A k \in {K_output, K_region} :
            LET allowed == IF k = K_output THEN output_types ELSE regions
                before == config_get(sanitize_out.given, k)
                after == config_get(config, k)
            IN  /\ after \in allowed
                /\ before \in allowed => after = before
                /\ before \notin allowed => after = config_defaults(k)

\* an output type and a region outside their allow-lists were given, with an
\* app URL, and sanitize_config_values has run
C13_Witness ==
    /\ sanitize_out.done
    /\ config_get(sanitize_out.given, K_output) = <<"bogus">>
    /\ config_get(sanitize_out.given, K_region) = <<"mars-1">>
    /\ truthy(config_get(sanitize_out.given, K_app_url))
    /\ config_get(config, K_output) = <<"json">>
    /\ config_get(config, K_region) = <<"us-east-1">>


\* validate_configuration reported the same-domain issue
SameDomainReported ==
    \E i \in 1..Len(validate_out.message) : validate_out.message[i] = MsgSameDomain

\* C14: when an organization URL and an app URL are both configured,
\* validate_configuration reports the same-domain issue if and only if the
\* origins (scheme and host) of the two URLs differ.
C14_ReportedIffOriginsDiffer ==
    LET org == config_get(validate_out.given, K_org)
        app_url == config_get(validate_out.given, K_app_url)
    IN  (validate_out.status = "returned" /\ truthy(org) /\ truthy(app_url)) =>
            (SameDomainReported <=> get_base_url(org) # get_base_url(app_url))


\* C15: when update_ini is called for a file whose directory is missing, at
\* one level or more, or whose path has no directory component, the
\* directory chain exists afterwards and the call went on to open the file
\* for writing.
C15_MissingDirectoriesCreated ==
    \A f \in Files :
        (UpdateIniOut(f).status # "none" /\ ~fs_before[f].exists
            /\ fs_before[f].dir # "present") =>
                /\ fs_before[f].dir # "empty" => fs[f].dir = "present"
                /\ fs[f].exists


C17_AliasBeforeRoleArn ==
    (role_out.status # "none" /\ Cardinality(AliasMatches) = 1) =>
        \A m \in AliasMatches :
            /\ role_out.status = "returned"
            /\ role_out.value = <<authenticated_aps[m[1]].roles[m[2]],
                                  authenticated_aps[m[1]].url>>


\* C18: select_role_arn enters the prompt only when the alias names no role,
\* no source lists the role ARN and no role ARN is configured; with a role
\* ARN configured that no source lists, and an alias that names no role, it
\* ends with exit status 2 without prompting.
C18_PromptOnlyWithoutRoleArn ==
    role_out.status # "none" =>
        /\ role_out.prompted =>
              AliasMatches = {} /\ ArnSources = {} /\ aws_role_arn = NoneObj
        /\ (aws_role_arn # NoneObj /\ ArnSources = {} /\ AliasMatches = {}) =>
              /\ role_out.status = "exit"
              /\ role_out.code = 2
              /\ ~role_out.prompted

\* a role ARN that no source lists and an alias that names no role are
\* configured, and the call has ended with exit status 2
C18_Witness ==
    /\ role_out.status = "exit"
    /\ role_out.code = 2
    /\ aws_role_arn # NoneObj
    /\ aws_profile # None
    /\ ArnSources = {}
    /\ AliasMatches = {}
    /\ Len(authenticated_aps) = 2


\* C19: when get_interactive_config is called with neither URL, the details
\* it returns do not carry an empty organization URL together with an empty
\* app URL, and each of the two URLs is empty or passes its validator.
C19_AtLeastOneUrl ==
    (gic_out.status = "returned" /\ gic_in.org_url = NoneVal /\ gic_in.app_url = NoneVal) =>
        LET org == IF "okta_org" \in DOMAIN gic_out.details
                   THEN gic_out.details["okta_org"] ELSE <<>>
            app_url == IF "okta_app_url" \in DOMAIN gic_out.details
                       THEN gic_out.details["okta_app_url"] ELSE <<>>
        IN  /\ ~(org = <<>> /\ app_url = <<>>)
            /\ org = <<>> \/ validate_okta_org_url(org)
            /\ app_url = <<>> \/ validate_okta_app_url(app_url)


\* the file, the environment and the arguments supply key k
StoredSourceHas(k) ==
    \/ k \in DOMAIN options_out.config_ini
    \/ k \in DOMAIN options_out.config_env
    \/ k \in DOMAIN options_out.config_args

\* C20: when neither URL is set by file, environment or arguments and the
\* user enters a valid organization URL and no app URL at the prompts, the
\* configuration process_options leaves has that organization URL.
C20_EnteredOrgReachesConfig ==
    (/\ options_out.status = "returned"
     /\ ~StoredSourceHas(K_org) /\ ~StoredSourceHas(K_app_url)
     /\ "okta_org" \in DOMAIN options_out.details
     /\ "okta_app_url" \in DOMAIN options_out.details
     /\ validate_okta_org_url(options_out.details["okta_org"])
     /\ options_out.details["okta_app_url"] = <<>>)
        => config_get(config, K_org) = options_out.details["okta_org"]


(***************************************************************************)
(* C21: in the configuration left by process_options, whenever an app URL  *)
(* is configured the organization URL is the scheme://host of the app URL  *)
(* and the app URL starts with the organization URL, whatever organization *)
(* URL the sources held.  Refuted by an app URL whose scheme is written in *)
(* upper case: urlparse gives the scheme in lower case, the organization   *)
(* URL becomes "https://acme.okta.com" and the app URL, which begins with  *)
(* "HTTPS://", does not start with it.                                     *)
(***************************************************************************)
C21_AppUrlStartsWithOrg ==
    (options_out.status = "returned" /\ truthy(config_get(config, K_app_url))) =>
        /\ config_get(config, K_org) = get_base_url(config_get(config, K_app_url))
        /\ startswith(config_get(config, K_app_url), config_get(config, K_org))

====
